---- MODULE Spec2Model ----
(***************************************************************************)
(* A model of the wyv file tree widget (src/src/widgets/file_tree.rs):     *)
(* the snapshot builder FileNode::new_recursive, the visible-row            *)
(* derivation FileTree::to_list_with_limit, the rasterizer                  *)
(* FileTree::render and the serde round trip of FileTree / FileTreeState.   *)
(*                                                                         *)
(* Strings are sequences of one-character strings, so that concatenation,   *)
(* split and rsplit are computed and not assumed.                           *)
(***************************************************************************)
EXTENDS Integers, Sequences, FiniteSets, TLC

(***************************************************************************)
(* Bounds of the model.                                                    *)
(***************************************************************************)
\* Width and height of the frame buffer the host hands to render.
BufWidth == 4
BufHeight == 3
\* Largest limit handed to to_list_with_limit on its own (besides 10).
MaxLimit == 3
\* Largest number of name_paths held in FileTreeState.expanded_nodes.
MaxExpanded == 2
\* Symbolic links the operating system follows in one path lookup before
\* it answers ELOOP (40 on Linux).
MaxSymlinks == 1

(***************************************************************************)
(* Strings.                                                                *)
(***************************************************************************)
NAME_SEP == "/"

\* The characters the model's names use, in byte order.
Ascii ==
    << "\"", ".", "/", "\\", "_", "a", "b", "c", "d", "e", "f", "g", "h",
       "i", "j", "k", "l", "m", "n", "o", "p", "q", "r", "s", "t", "u",
       "v", "w", "x", "y", "z" >>

Code(c) == CHOOSE i \in 1..Len(Ascii) : Ascii[i] = c

\* Ordering of str: byte-wise lexicographic. -1, 0 or 1.
RECURSIVE StrCmp(_, _)
StrCmp(a, b) ==
    IF a = <<>> /\ b = <<>> THEN 0
    ELSE IF a = <<>> THEN -1
    ELSE IF b = <<>> THEN 1
    ELSE IF Code(Head(a)) < Code(Head(b)) THEN -1
    ELSE IF Code(Head(a)) > Code(Head(b)) THEN 1
    ELSE StrCmp(Tail(a), Tail(b))

\* Position of the last separator of s, 0 when it has none.
LastSep(s) ==
    LET at == {i \in 1..Len(s) : s[i] = NAME_SEP}
    IN  IF at = {} THEN 0 ELSE CHOOSE i \in at : \A j \in at : j <= i

\* s.split(NAME_SEP).count(): one more than the separators of s.
SplitCount(s) == 1 + Cardinality({i \in 1..Len(s) : s[i] = NAME_SEP})

\* s.rsplit(NAME_SEP).next(): what follows the last separator.
RsplitFirst(s) == SubSeq(s, LastSep(s) + 1, Len(s))

(***************************************************************************)
(* Paths and the file system the builder reads.                             *)
(* An OsStr / Path is text that may fail to be UTF-8 (to_str() is None).    *)
(***************************************************************************)
Utf8(t) == [utf8 |-> TRUE, text |-> t]
NotUtf8(t) == [utf8 |-> FALSE, text |-> t]
NoPath == [utf8 |-> TRUE, text |-> <<>>]

\* Entries of the file system.  resolves: for a symbolic link, the place of
\* the entry it points to (the entry indices from the top), or <<0>> when it
\* points to nothing.
Dangling == <<0>>
RegularFile(n) ==
    [kind |-> "file", name |-> n, entries |-> <<>>, readable |-> TRUE,
     target |-> NoPath, resolves |-> Dangling]
Dir(n, es) ==
    [kind |-> "dir", name |-> n, entries |-> es, readable |-> TRUE,
     target |-> NoPath, resolves |-> Dangling]
LockedDir(n, es) ==
    [kind |-> "dir", name |-> n, entries |-> es, readable |-> FALSE,
     target |-> NoPath, resolves |-> Dangling]
Symlink(n, t, to) ==
    [kind |-> "symlink", name |-> n, entries |-> <<>>, readable |-> TRUE,
     target |-> t, resolves |-> to]
Fifo(n) ==
    [kind |-> "other", name |-> n, entries |-> <<>>, readable |-> TRUE,
     target |-> NoPath, resolves |-> Dangling]

\* The entry at a place of the file system.
RECURSIVE EntryAt(_, _)
EntryAt(top, place) ==
    IF place = <<>> THEN top ELSE EntryAt(top.entries[Head(place)], Tail(place))

\* What a lookup that follows symbolic links reaches from entry e, having
\* followed n links already: ok is FALSE for a dangling link and for ELOOP.
RECURSIVE Follow(_, _, _)
Follow(top, e, n) ==
    IF e.kind # "symlink" THEN [ok |-> TRUE, entry |-> e, links |-> n]
    ELSE IF e.resolves = Dangling \/ n >= MaxSymlinks
         THEN [ok |-> FALSE, entry |-> e, links |-> n]
         ELSE Follow(top, EntryAt(top, e.resolves), n + 1)

\* Path::is_file, Path::is_dir: of what the path resolves to.
is_file(top, e, n) == Follow(top, e, n).ok /\ Follow(top, e, n).entry.kind = "file"
is_dir(top, e, n) == Follow(top, e, n).ok /\ Follow(top, e, n).entry.kind = "dir"
\* Path::is_symlink: of the entry itself.
is_symlink(e) == e.kind = "symlink"

(***************************************************************************)
(* FileNode.                                                               *)
(***************************************************************************)
Directory(p, c) == [tag |-> "Directory", path |-> p, children |-> c, target |-> NoPath]
File(p) == [tag |-> "File", path |-> p, children |-> <<>>, target |-> NoPath]
Link(p, t) == [tag |-> "Link", path |-> p, children |-> <<>>, target |-> t]

path(n) == n.path
name(n) == RsplitFirst(n.path)
has_children(n) == n.tag = "Directory"
depth(n) == SplitCount(n.path)

\* TagRank with the variants File and Directory declared the other way round.
TagRankFilesFirst(n) ==
    CASE n.tag = "File" -> 0 [] n.tag = "Directory" -> 1 [] n.tag = "Link" -> 2

\* #[derive(Ord)] on FileNode: the variant first, then the fields in order.
TagRank(n) == CASE n.tag = "Directory" -> 0 [] n.tag = "File" -> 1 [] n.tag = "Link" -> 2

RECURSIVE NodeCmp(_, _)
RECURSIVE NodesCmp(_, _)
NodeCmp(a, b) ==
    IF TagRank(a) < TagRank(b) THEN -1
    ELSE IF TagRank(a) > TagRank(b) THEN 1
    ELSE IF StrCmp(a.path, b.path) # 0 THEN StrCmp(a.path, b.path)
    ELSE IF a.tag = "Directory" THEN NodesCmp(a.children, b.children)
    ELSE IF a.tag = "Link" THEN StrCmp(a.target.text, b.target.text)
    ELSE 0
NodesCmp(s, t) ==
    IF s = <<>> /\ t = <<>> THEN 0
    ELSE IF s = <<>> THEN -1
    ELSE IF t = <<>> THEN 1
    ELSE IF NodeCmp(Head(s), Head(t)) # 0 THEN NodeCmp(Head(s), Head(t))
    ELSE NodesCmp(Tail(s), Tail(t))

\* nodes.sort(): a stable sort by NodeCmp.
RECURSIVE InsertSorted(_, _)
InsertSorted(n, s) ==
    IF s = <<>> THEN <<n>>
    ELSE IF NodeCmp(n, Head(s)) < 0 THEN <<n>> \o s
    ELSE <<Head(s)>> \o InsertSorted(n, Tail(s))

RECURSIVE Sort(_)
Sort(s) == IF s = <<>> THEN <<>> ELSE InsertSorted(s[Len(s)], Sort(SubSeq(s, 1, Len(s) - 1)))

(***************************************************************************)
(* FileNode::new_recursive.                                                *)
(***************************************************************************)
NoParent == <<>>
Err == [ok |-> FALSE]
Ok(v) == [ok |-> TRUE, val |-> v]

\* PathName with the separator left out.
PathNameNoSep(e, parent) ==
    IF parent # NoParent THEN parent \o e.name.text ELSE e.name.text

\* The name_path of an entry: its file name, after the parent's and a
\* separator when there is a parent.
PathName(e, parent) ==
    IF parent # NoParent THEN parent \o <<NAME_SEP>> \o e.name.text ELSE e.name.text

RECURSIVE new_recursive(_, _, _, _)
RECURSIVE BuildEntries(_, _, _, _)
\* top: the file system; e: the entry the path names; parent: the parent's
\* name_path or NoParent; n: symbolic links the path has gone through.
new_recursive(top, e, parent, n) ==
    IF ~e.name.utf8 THEN Err
    ELSE IF is_file(top, e, n) THEN Ok(File(PathName(e, parent)))
    ELSE IF is_dir(top, e, n) THEN
        LET d == Follow(top, e, n)
        IN  IF ~d.entry.readable THEN Err
            ELSE Ok(Directory(PathName(e, parent),
                              Sort(BuildEntries(top, d.entry.entries,
                                                PathName(e, parent), d.links))))
    ELSE IF is_symlink(e) THEN Ok(Link(PathName(e, parent), e.target))
    ELSE Err

\* read_dir(path) mapped through new_recursive, the failures filtered out.
BuildEntries(top, es, parent, n) ==
    IF es = <<>> THEN <<>>
    ELSE LET r == new_recursive(top, Head(es), parent, n)
         IN  (IF r.ok THEN <<r.val>> ELSE <<>>) \o BuildEntries(top, Tail(es), parent, n)

(***************************************************************************)
(* FileTree and FileTreeState.                                             *)
(***************************************************************************)
\* FileNode::new_from_path: canonicalize, then new_recursive with no parent.
\* open.to names what the path leads to: "top" (the directory the model's
\* file system holds), "slash" (the root directory, which has no file name)
\* or "missing" (canonicalize fails).
new_from_path(top, open) ==
    IF open.to = "missing" THEN Err
    ELSE IF open.to = "slash" THEN Err
    ELSE new_recursive(top, top, NoParent, 0)

\* FileTree::new: the state starts as Default::default(), the empty set.
FileTreeNew(top, open) ==
    LET root_node == new_from_path(top, open)
    IN  IF root_node.ok
        THEN Ok([file_root |-> open.path, root_node |-> root_node.val,
                 state |-> [expanded_nodes |-> {}]])
        ELSE Err

\* ToListLoop without the look into the expanded set.
RECURSIVE ToListLoopAll(_, _, _, _)
ToListLoopAll(i, nodes, limit, expanded) ==
    IF i < limit /\ i < Len(nodes)
    THEN LET next == nodes[i + 1]
         IN  ToListLoopAll(i + 1,
                           IF has_children(next) THEN nodes \o next.children ELSE nodes,
                           limit, expanded)
    ELSE nodes

\* FileTree::to_list_with_limit: the loop, with its cursor i and its vector.
RECURSIVE ToListLoop(_, _, _, _)
ToListLoop(i, nodes, limit, expanded) ==
    IF i < limit /\ i < Len(nodes)
    THEN LET next == nodes[i + 1]
         IN  ToListLoop(i + 1,
                        IF has_children(next) /\ path(next) \in expanded
                        THEN nodes \o next.children
                        ELSE nodes,
                        limit, expanded)
    ELSE nodes

\* to_list_with_limit with its cursor started at 1.
to_list_with_limit_from_one(self, limit) ==
    ToListLoop(1, <<self.root_node>>, limit, self.state.expanded_nodes)

to_list_with_limit(self, limit) ==
    ToListLoop(0, <<self.root_node>>, limit, self.state.expanded_nodes)

(***************************************************************************)
(* FileTree::render.                                                       *)
(***************************************************************************)
U16 == 2 ^ 16

\* A cell of the buffer holds its symbol, a string; a fresh cell holds " ".
BlankCell == <<" ">>
BlankBuffer ==
    [width |-> BufWidth, height |-> BufHeight,
     content |-> [k \in 0..(BufWidth * BufHeight - 1) |-> BlankCell]]

\* What render has done so far: the buffer's content, the writes in order
\* (output row i, column iw, flat index idx) and how it went: "none",
\* "index" (buf.content[idx] out of range: a panic) or "overflow" (a u16
\* operation overflowed in a build with overflow checks: a panic).
RenderStart(buf) == [content |-> buf.content, writes |-> <<>>, fault |-> "none", wrapped |-> FALSE]

\* The body of `for iw in 0..w` from column iw on, for output row i.
RECURSIVE RenderCols(_, _, _, _, _, _, _)
RenderCols(acc, area, i, iw, indent, len, checks) ==
    IF iw >= area.width \/ acc.fault # "none" THEN acc
    ELSE IF iw < indent THEN RenderCols(acc, area, i, iw + 1, indent, len, checks)
    ELSE IF iw + indent >= U16 /\ checks THEN [acc EXCEPT !.fault = "overflow"]
    ELSE IF (iw + indent) % U16 > len % U16 THEN acc
    ELSE LET fx == area.x + iw
             fy == area.y + i
             over == fx >= U16 \/ fy >= U16 \/ (fx % U16) * (fy % U16) >= U16
                     \/ iw + indent >= U16
             start_idx == i * area.width
             idx == (((fx % U16) * (fy % U16)) % U16) + start_idx
         IN  IF over /\ checks THEN [acc EXCEPT !.fault = "overflow"]
             ELSE IF idx >= BufWidth * BufHeight THEN [acc EXCEPT !.fault = "index"]
             ELSE RenderCols(
                    [acc EXCEPT !.content[idx] = @ \o <<"X">>,
                                !.writes = @ \o <<[i |-> i, iw |-> iw, idx |-> idx]>>,
                                !.wrapped = @ \/ over],
                    area, i, iw + 1, indent, len, checks)

\* The body of `for i in 0..h` from row i on.
RECURSIVE RenderRows(_, _, _, _, _)
RenderRows(acc, area, list, i, checks) ==
    IF i >= area.height \/ i >= Len(list) \/ acc.fault # "none" THEN acc
    ELSE LET node == list[i + 1]
         IN  RenderRows(RenderCols(acc, area, i, 0, depth(node), Len(name(node)), checks),
                        area, list, i + 1, checks)

\* render(self, area, buf, state): state is not read; the widget's own
\* self.state decides the rows.  checks: the build's overflow checks.
render(self, area, buf, checks) ==
    IF area.width < 1 \/ area.height < 1 THEN RenderStart(buf)
    ELSE RenderRows(RenderStart(buf), area, to_list_with_limit(self, area.height), 0, checks)

(***************************************************************************)
(* serde_json::to_string and from_str of FileTreeState and FileTree, as the *)
(* derived Serialize / Deserialize make them.  A JSON string is kept as the *)
(* text between its quotes, escapes included.                               *)
(***************************************************************************)
\* The text of a JSON string holding s: quote and backslash are escaped.
RECURSIVE Escape(_)
Escape(s) ==
    IF s = <<>> THEN <<>>
    ELSE IF Head(s) = "\"" \/ Head(s) = "\\" THEN <<"\\", Head(s)>> \o Escape(Tail(s))
    ELSE <<Head(s)>> \o Escape(Tail(s))

\* The string a JSON string's text stands for.
RECURSIVE Unescape(_)
Unescape(t) ==
    IF t = <<>> THEN <<>>
    ELSE IF Head(t) = "\\" THEN <<t[2]>> \o Unescape(SubSeq(t, 3, Len(t)))
    ELSE <<Head(t)>> \o Unescape(Tail(t))

StringToJson(s) == [str |-> Escape(s)]
StringFromJson(j) == Unescape(j.str)

\* impl Serialize for Path: an error unless the path is UTF-8.
PathToJson(p) == IF p.utf8 THEN Ok(StringToJson(p.text)) ELSE Err
PathFromJson(j) == Utf8(StringFromJson(j))

\* FileTreeStateToJson with the field written empty.
FileTreeStateToJsonSkipped(st, order) == [expanded_nodes |-> <<>>]

\* FileTreeState: {"expanded_nodes": [...]}, the set in the order the
\* HashSet iterates, which is any order.
FileTreeStateToJson(st, order) ==
    [expanded_nodes |-> [k \in 1..Len(order) |-> StringToJson(order[k])]]
FileTreeStateFromJson(j) ==
    [expanded_nodes |-> {StringFromJson(j.expanded_nodes[k]) : k \in 1..Len(j.expanded_nodes)}]

\* FileNode, an externally tagged enum: {"Directory": [name, [children]]},
\* {"File": name}, {"Link": [name, target]}.
RECURSIVE FileNodeToJson(_)
RECURSIVE FileNodesToJson(_)
FileNodeToJson(n) ==
    IF n.tag = "Directory" THEN
        LET c == FileNodesToJson(n.children)
        IN  IF c.ok THEN Ok([Directory |-> <<StringToJson(n.path), c.val>>]) ELSE Err
    ELSE IF n.tag = "File" THEN Ok([File |-> StringToJson(n.path)])
    ELSE LET t == PathToJson(n.target)
         IN  IF t.ok THEN Ok([Link |-> <<StringToJson(n.path), t.val>>]) ELSE Err
FileNodesToJson(s) ==
    IF s = <<>> THEN Ok(<<>>)
    ELSE LET h == FileNodeToJson(Head(s))
             t == FileNodesToJson(Tail(s))
         IN  IF h.ok /\ t.ok THEN Ok(<<h.val>> \o t.val) ELSE Err

RECURSIVE FileNodeFromJson(_)
FileNodeFromJson(j) ==
    IF DOMAIN j = {"Directory"} THEN
        Directory(StringFromJson(j.Directory[1]),
                  [k \in 1..Len(j.Directory[2]) |-> FileNodeFromJson(j.Directory[2][k])])
    ELSE IF DOMAIN j = {"File"} THEN File(StringFromJson(j.File))
    ELSE Link(StringFromJson(j.Link[1]), PathFromJson(j.Link[2]))

\* FileTree: {"file_root": .., "root_node": .., "state": ..}.
FileTreeToJson(self, order) ==
    LET r == PathToJson(self.file_root)
        n == FileNodeToJson(self.root_node)
    IN  IF r.ok /\ n.ok
        THEN Ok([file_root |-> r.val, root_node |-> n.val,
                 state |-> FileTreeStateToJson(self.state, order)])
        ELSE Err
FileTreeFromJson(j) ==
    [file_root |-> PathFromJson(j.file_root),
     root_node |-> FileNodeFromJson(j.root_node),
     state |-> FileTreeStateFromJson(j.state)]

\* The orders a HashSet may iterate in: the sequences that list it once.
Orders(S) ==
    {o \in [1..Cardinality(S) -> S] : \A a, b \in 1..Cardinality(S) : o[a] = o[b] => a = b}

(***************************************************************************)
(* The file systems and paths the model opens.                             *)
(***************************************************************************)
FsScenario ==
    Dir(Utf8(<<"r", "o", "o", "t">>),
        << RegularFile(Utf8(<<"a", ".", "t", "x", "t">>)),
           Dir(Utf8(<<"b">>), << RegularFile(Utf8(<<"c", ".", "t", "x", "t">>)) >>) >>)

FsWidgets ==
    Dir(Utf8(<<"w", "i", "d", "g", "e", "t", "s">>),
        << RegularFile(Utf8(<<"m", "o", "d", ".", "r", "s">>)), RegularFile(Utf8(<<"f", "i", "l", "e", "_", "t", "r", "e", "e", ".", "r", "s">>)) >>)

FsLinks ==
    Dir(Utf8(<<"r">>),
        << Symlink(Utf8(<<"l", "f">>), Utf8(<<"d", "/", "g">>), <<2, 1>>),
           Dir(Utf8(<<"d">>), << RegularFile(Utf8(<<"g">>)) >>),
           Symlink(Utf8(<<"l", "d">>), Utf8(<<"d">>), <<2>>),
           Symlink(Utf8(<<"d", "e", "a", "d">>), Utf8(<<"g", "o", "n", "e">>), Dangling) >>)

FsLoop ==
    Dir(Utf8(<<"r">>),
        << Symlink(Utf8(<<"u", "p">>), Utf8(<<".", ".">>), <<>>),
           RegularFile(Utf8(<<"f">>)) >>)

FsOdd ==
    Dir(Utf8(<<"r">>),
        << RegularFile(NotUtf8(<<"x">>)),
           Fifo(Utf8(<<"p">>)),
           LockedDir(Utf8(<<"k">>), << RegularFile(Utf8(<<"s">>)) >>),
           Symlink(Utf8(<<"b", "a", "d">>), NotUtf8(<<"t">>), Dangling),
           RegularFile(Utf8(<<"q", "\"", "\\">>)) >>)

FileSystems == {FsScenario, FsWidgets, FsLinks, FsLoop, FsOdd}

OpenPaths ==
    { [path |-> Utf8(<<".">>), to |-> "top"],
      [path |-> NotUtf8(<<"w">>), to |-> "top"],
      [path |-> Utf8(<<"/">>), to |-> "slash"],
      [path |-> Utf8(<<"n", "o", "p", "e">>), to |-> "missing"] }

(***************************************************************************)
(* The state machine.                                                      *)
(***************************************************************************)
VARIABLES
    fs,     \* the file system on disk
    tree,   \* the FileTree the view holds, or NoTree
    last    \* the last call made and what it returned

vars == <<fs, tree, last>>

NoTree == [none |-> TRUE]

RECURSIVE NodesOf(_)
RECURSIVE NodesOfAll(_)
\* Every node of a tree, the root included.
NodesOf(n) == {n} \cup NodesOfAll(n.children)
NodesOfAll(s) == IF s = <<>> THEN {} ELSE NodesOf(Head(s)) \cup NodesOfAll(Tail(s))

\* The name_paths the host may expand: those of the tree, and one of no node.
Expandable(t) == {path(n) : n \in NodesOf(t.root_node)} \cup {<<"z", "z">>}

Limits == (0..MaxLimit) \cup {10}

\* The areas that lie inside the buffer, empty ones included.
Inside(a) == a.x + a.width <= BufWidth /\ a.y + a.height <= BufHeight
Areas ==
    { a \in [x : 0..BufWidth, y : 0..BufHeight, width : 0..BufWidth, height : 0..BufHeight] :
        Inside(a) }

Init ==
    /\ fs \in FileSystems
    /\ tree = NoTree
    /\ last = [op |-> "none"]

\* FileTree::new(open), in a frame that holds no tree yet.
New(open) ==
    /\ tree = NoTree
    /\ last.op \in {"none", "new"}
    /\ LET r == FileTreeNew(fs, open)
       IN  /\ tree' = IF r.ok THEN r.val ELSE NoTree
           /\ last' = [op |-> "new", open |-> open, ok |-> r.ok]
    /\ UNCHANGED fs

\* tree.state().expanded_nodes.insert(p)
Expand(p) ==
    /\ tree # NoTree
    /\ p \notin tree.state.expanded_nodes
    /\ Cardinality(tree.state.expanded_nodes) < MaxExpanded
    /\ tree' = [tree EXCEPT !.state.expanded_nodes = @ \cup {p}]
    /\ last' = [op |-> "state"]
    /\ UNCHANGED fs

\* tree.state().expanded_nodes.remove(p)
Collapse(p) ==
    /\ tree # NoTree
    /\ p \in tree.state.expanded_nodes
    /\ tree' = [tree EXCEPT !.state.expanded_nodes = @ \ {p}]
    /\ last' = [op |-> "state"]
    /\ UNCHANGED fs

\* tree.to_list_with_limit(limit)
ToList(limit) ==
    /\ tree # NoTree
    /\ last' = [op |-> "to_list_with_limit", limit |-> limit,
                list |-> to_list_with_limit(tree, limit)]
    /\ UNCHANGED <<fs, tree>>

\* f.render_stateful_widget(tree, area, ..): the widget is consumed.
Render(area) ==
    /\ tree # NoTree
    /\ \E out \in {render(tree, area, BlankBuffer, checks) : checks \in BOOLEAN} :
          last' = [op |-> "render", self |-> tree, area |-> area, out |-> out]
    /\ tree' = NoTree
    /\ UNCHANGED fs

\* terminal.draw returns: the frame is over, the next one starts afresh.
EndFrame ==
    /\ last.op = "render"
    /\ last' = [op |-> "none"]
    /\ UNCHANGED <<fs, tree>>

\* serde_json::to_string(&tree)
Save(order) ==
    /\ tree # NoTree
    /\ last' = [op |-> "to_string", self |-> tree, out |-> FileTreeToJson(tree, order)]
    /\ UNCHANGED <<fs, tree>>

\* serde_json::from_str::<FileTree>(&s) of the text to_string returned
Load ==
    /\ last.op = "to_string"
    /\ last.out.ok
    /\ last' = [op |-> "from_str", self |-> last.self, text |-> last.out.val,
                out |-> FileTreeFromJson(last.out.val)]
    /\ UNCHANGED <<fs, tree>>

\* serde_json::to_string(tree.state())
SaveState(order) ==
    /\ tree # NoTree
    /\ last' = [op |-> "state_to_string", self |-> tree.state,
                out |-> FileTreeStateToJson(tree.state, order)]
    /\ UNCHANGED <<fs, tree>>

\* serde_json::from_str::<FileTreeState>(&s) of that text
LoadState ==
    /\ last.op = "state_to_string"
    /\ last' = [op |-> "state_from_str", self |-> last.self, text |-> last.out,
                out |-> FileTreeStateFromJson(last.out)]
    /\ UNCHANGED <<fs, tree>>

Expanded == IF tree = NoTree THEN {} ELSE tree.state.expanded_nodes

Next ==
    \/ \E open \in OpenPaths : New(open)
    \/ \E p \in (IF tree = NoTree THEN {} ELSE Expandable(tree)) : Expand(p)
    \/ \E p \in Expanded : Collapse(p)
    \/ \E limit \in Limits : ToList(limit)
    \/ \E area \in Areas : Render(area)
    \/ EndFrame
    \/ \E order \in Orders(Expanded) : Save(order)
    \/ Load
    \/ \E order \in Orders(Expanded) : SaveState(order)
    \/ LoadState

Spec == Init /\ [][Next]_vars

(***************************************************************************)
(* Vocabulary of the properties.                                           *)
(***************************************************************************)
Min(a, b) == IF a < b THEN a ELSE b

\* The proper descendants of a node.
Descendants(n) == NodesOfAll(n.children)

\* The name_paths of a list of nodes.
PathsOf(list) == [k \in 1..Len(list) |-> path(list[k])]

\* The name_paths of a tree, one per node, parents first.
RECURSIVE FlatPaths(_)
RECURSIVE FlatPathsAll(_)
FlatPaths(n) == <<path(n)>> \o FlatPathsAll(n.children)
FlatPathsAll(s) == IF s = <<>> THEN <<>> ELSE FlatPaths(Head(s)) \o FlatPathsAll(Tail(s))

\* The derivation with no limit: the loop run until the vector is used up
\* (a tree has fewer nodes than the limit given here).
Unbounded(t) ==
    ToListLoop(0, <<t.root_node>>, Len(FlatPaths(t.root_node)) + 1, t.state.expanded_nodes)

\* The rows render goes through in its last call: the nodes at 0 .. below
\* the height and the length of the list.
RenderedList == to_list_with_limit(last.self, last.area.height)
RenderedRows ==
    IF last.area.width < 1 \/ last.area.height < 1 THEN {}
    ELSE 0..(Min(last.area.height, Len(RenderedList)) - 1)
WritesOfRow(i) == {k \in 1..Len(last.out.writes) : last.out.writes[k].i = i}

\* The flat index of the cell at a row and a column of the buffer.
RowMajor(row, column) == row * BufWidth + column

ScenarioTree == tree # NoTree /\ fs = FsScenario

(***************************************************************************)
(* C1.  Collapse containment: when a directory's name_path is not in the    *)
(* expanded set, the list to_list_with_limit returns holds none of that     *)
(* directory's descendants, whatever the limit and whatever else is in the  *)
(* set.                                                                     *)
(***************************************************************************)
C1_CollapseContainment ==
    last.op = "to_list_with_limit" =>
        \A d \in NodesOf(tree.root_node) :
            (has_children(d) /\ path(d) \notin tree.state.expanded_nodes) =>
                \A k \in 1..Len(last.list) : last.list[k] \notin Descendants(d)

\* A collapsed directory is listed while a descendant of it is in the set.
C1_Witness ==
    /\ last.op = "to_list_with_limit"
    /\ \E k \in 1..Len(last.list) :
          /\ k > 1
          /\ has_children(last.list[k])
          /\ path(last.list[k]) \notin tree.state.expanded_nodes
          /\ \E c \in Descendants(last.list[k]) : path(c) \in tree.state.expanded_nodes

(***************************************************************************)
(* C2.  The scenario as the claim states it: for root { a.txt, b { c.txt }}*)
(* and limit 10, the empty set gives [root, root/a.txt, root/b] and the set *)
(* {root/b} gives [root, root/a.txt, root/b, root/b/c.txt].                 *)
(***************************************************************************)
C2_ScenarioAsStated ==
    (ScenarioTree /\ last.op = "to_list_with_limit" /\ last.limit = 10) =>
        /\ tree.state.expanded_nodes = {} =>
              PathsOf(last.list) = << <<"r", "o", "o", "t">>, <<"r", "o", "o", "t", "/", "a", ".", "t", "x", "t">>, <<"r", "o", "o", "t", "/", "b">> >>
        /\ tree.state.expanded_nodes = { <<"r", "o", "o", "t", "/", "b">> } =>
              PathsOf(last.list) = << <<"r", "o", "o", "t">>, <<"r", "o", "o", "t", "/", "a", ".", "t", "x", "t">>, <<"r", "o", "o", "t", "/", "b">>, <<"r", "o", "o", "t", "/", "b", "/", "c", ".", "t", "x", "t">> >>

(***************************************************************************)
(* C2, amended.  For the scenario tree as the builder makes it and limit    *)
(* 10: the empty set, and the set {root/b}, give [root]; {root} gives       *)
(* [root, root/b, root/a.txt]; {root, root/b} gives                         *)
(* [root, root/b, root/a.txt, root/b/c.txt].                                *)
(***************************************************************************)
C2_Scenario ==
    (ScenarioTree /\ last.op = "to_list_with_limit" /\ last.limit = 10) =>
        /\ tree.state.expanded_nodes \in {{}, { <<"r", "o", "o", "t", "/", "b">> }} =>
              PathsOf(last.list) = << <<"r", "o", "o", "t">> >>
        /\ tree.state.expanded_nodes = { <<"r", "o", "o", "t">> } =>
              PathsOf(last.list) = << <<"r", "o", "o", "t">>, <<"r", "o", "o", "t", "/", "b">>, <<"r", "o", "o", "t", "/", "a", ".", "t", "x", "t">> >>
        /\ tree.state.expanded_nodes = { <<"r", "o", "o", "t">>, <<"r", "o", "o", "t", "/", "b">> } =>
              PathsOf(last.list) = << <<"r", "o", "o", "t">>, <<"r", "o", "o", "t", "/", "b">>, <<"r", "o", "o", "t", "/", "a", ".", "t", "x", "t">>, <<"r", "o", "o", "t", "/", "b", "/", "c", ".", "t", "x", "t">> >>

\* The scenario with both directories expanded, listed with limit 10.
C2_Witness ==
    /\ ScenarioTree
    /\ last.op = "to_list_with_limit"
    /\ last.limit = 10
    /\ tree.state.expanded_nodes = { <<"r", "o", "o", "t">>, <<"r", "o", "o", "t", "/", "b">> }
    /\ Len(last.list) = 4

(***************************************************************************)
(* C3.  Cell addressing of render is row-major and injective: the write for *)
(* output row i and column iw goes to the cell at row area.y + i and column *)
(* area.x + iw of the buffer, and no two writes of one call go to the same  *)
(* cell.                                                                    *)
(***************************************************************************)
C3_RowMajorInjective ==
    last.op = "render" =>
        LET w == last.out.writes
        IN  /\ \A k \in 1..Len(w) :
                  w[k].idx = RowMajor(last.area.y + w[k].i, last.area.x + w[k].iw)
            /\ \A j, k \in 1..Len(w) : w[j].idx = w[k].idx => j = k

(***************************************************************************)
(* C4.  Rendering never faults: for every area inside the buffer, render    *)
(* runs to completion, every index it computes is below the buffer's cell   *)
(* count and none of its 16-bit computations overflows.                     *)
(***************************************************************************)
C4_RenderNeverFaults ==
    last.op = "render" => (last.out.fault = "none" /\ ~last.out.wrapped)

(***************************************************************************)
(* C5.  Truncation: a rendered row whose node has depth indent and a base   *)
(* name longer than width - indent gets exactly width - indent cell writes  *)
(* when indent < width, and none when indent >= width.                      *)
(***************************************************************************)
C5_Truncation ==
    (last.op = "render" /\ last.out.fault = "none") =>
        \A i \in RenderedRows :
            LET node == RenderedList[i + 1]
                indent == depth(node)
            IN  Len(name(node)) > last.area.width - indent =>
                    Cardinality(WritesOfRow(i)) =
                        (IF indent < last.area.width THEN last.area.width - indent ELSE 0)

(***************************************************************************)
(* C6.  Row content: for a rendered row i showing node n with indent =      *)
(* depth(n), the k-th character of n's base name is written into column     *)
(* indent + k of that row, for every k below the name's length with         *)
(* indent + k < width.                                                      *)
(***************************************************************************)
C6_RowContent ==
    (last.op = "render" /\ last.out.fault = "none") =>
        \A i \in RenderedRows :
            LET node == RenderedList[i + 1]
                indent == depth(node)
            IN  \A k \in 0..(Len(name(node)) - 1) :
                    indent + k < last.area.width =>
                        LET cell == last.out.content[
                                        RowMajor(last.area.y + i, last.area.x + indent + k)]
                        IN  cell[Len(cell)] = name(node)[k + 1]

PathsAreUtf8(t) ==
    /\ t.file_root.utf8
    /\ \A n \in NodesOf(t.root_node) : n.tag = "Link" => n.target.utf8

C8_PathIdentity ==
    tree # NoTree =>
        LET root == tree.root_node
            paths == FlatPaths(root)
        IN  /\ path(root) = name(root)
            /\ path(root) = fs.name.text
            /\ \A d \in NodesOf(root) : \A k \in 1..Len(d.children) :
                  /\ path(d.children[k]) = path(d) \o <<NAME_SEP>> \o name(d.children[k])
                  /\ depth(d.children[k]) = depth(d) + 1
            /\ \A j, k \in 1..Len(paths) : paths[j] = paths[k] => j = k
            /\ fs = FsWidgets =>
                  \E k \in 1..Len(root.children) :
                      root.children[k] = File( <<"w", "i", "d", "g", "e", "t", "s", "/", "f", "i", "l", "e", "_", "t", "r", "e", "e", ".", "r", "s">> )

\* A tree three levels deep has been built.
C8_Witness ==
    /\ tree # NoTree
    /\ \E n \in NodesOf(tree.root_node) : depth(n) = 3 /\ Len(name(n)) > 1

\* The name_paths of the symbolic links of a directory tree on disk, walked
\* without following any link.
RECURSIVE SymlinkPaths(_, _)
RECURSIVE SymlinkPathsAll(_, _)
SymlinkPaths(e, parent) ==
    IF e.kind = "symlink" THEN {PathName(e, parent)}
    ELSE IF e.kind = "dir" THEN SymlinkPathsAll(e.entries, PathName(e, parent))
    ELSE {}
SymlinkPathsAll(es, parent) ==
    IF es = <<>> THEN {}
    ELSE SymlinkPaths(Head(es), parent) \cup SymlinkPathsAll(Tail(es), parent)

(***************************************************************************)
(* C9.  Symbolic links are never followed into the tree: every entry that   *)
(* is a symbolic link is built as a Link node that stores the link's target *)
(* and has no children, and no node's name_path extends the name_path of a  *)
(* symbolic link.                                                           *)
(***************************************************************************)
C9_LinksNotFollowed ==
    tree # NoTree =>
        \A n \in NodesOf(tree.root_node) :
            /\ path(n) \in SymlinkPaths(fs, NoParent) => (n.tag = "Link" /\ n.children = <<>>)
            /\ \A l \in SymlinkPaths(fs, NoParent) :
                  ~(Len(path(n)) > Len(l) /\ SubSeq(path(n), 1, Len(l) + 1) = l \o <<NAME_SEP>>)

(***************************************************************************)
(* C10.  Bounded traversal fills the page: with U the list derived with no  *)
(* limit, to_list_with_limit(limit) has at least min(limit, Len(U)) entries *)
(* and its first min(limit, Len(U)) entries are those of U in order; so     *)
(* render draws the rows it would draw from U.                              *)
(***************************************************************************)
C10_BoundedFillsPage ==
    /\ last.op = "to_list_with_limit" =>
          LET U == Unbounded(tree)
              m == Min(last.limit, Len(U))
          IN  /\ Len(last.list) >= m
              /\ SubSeq(last.list, 1, m) = SubSeq(U, 1, m)
    /\ (last.op = "render" /\ last.area.width >= 1 /\ last.area.height >= 1) =>
          /\ \A i \in RenderedRows : RenderedList[i + 1] = Unbounded(last.self)[i + 1]
          /\ Cardinality(RenderedRows) = Min(last.area.height, Len(Unbounded(last.self)))
          /\ last.out \in {RenderRows(RenderStart(BlankBuffer), last.area,
                                      Unbounded(last.self), 0, checks) : checks \in BOOLEAN}

\* The limit cut the derivation short of the whole list.
C10_Witness ==
    /\ last.op = "to_list_with_limit"
    /\ last.limit >= 1
    /\ last.limit < Len(last.list)
    /\ Len(last.list) < Len(Unbounded(tree))

====
